---- MODULE Spec2Model ----
(***************************************************************************)
(* Window registry of the simulated desktop                                *)
(* (src/src/components/desktop/WindowManager.tsx, WindowManagerProvider).  *)
(*                                                                         *)
(* The provider holds two React state cells, `windows` and `topZIndex`.    *)
(* Every operation hands React an updater function; React runs the updater *)
(* (this is where the Sentry calls are made and where the next array is    *)
(* computed) and afterwards commits the values the updaters returned.      *)
(* The context value that consumers read is built from the committed       *)
(* cells only.  One operation is processed per render pass.                *)
(*                                                                         *)
(* The window_type tag (id.split('-')[0]) carried by the counters is not   *)
(* modelled: no property below depends on it.                              *)
(***************************************************************************)
EXTENDS Integers, Sequences, FiniteSets, TLC

\* ---------------------------------------------------------------- bounds
\* Number of ordering keys that may be drawn above the seed.
MaxDraws == 3

\* ------------------------------------------------------------- constants
\* useState(100)
SeedZIndex == 100

\* ------------------------------------------------------------ input sets
Ids == {"notes-1", "calc-1"}

Points == {<<0, 0>>, <<10, 20>>}

Sizes == {<<400, 300>>, <<640, 480>>}

\* Omit<WindowState, 'zIndex' | 'isFocused'>: what a caller passes to open.
WindowInput(id, look, p, s, mn, mx) ==
    [id |-> id, title |-> look[1], icon |-> look[2],
     x |-> p[1], y |-> p[2], width |-> s[1], height |-> s[2],
     isMinimized |-> mn, isMaximized |-> mx]

\* Callers pass a title/icon/geometry profile and the two display flags.
P1 == <<<<"Notes", "notes">>, <<0, 0>>, <<400, 300>>>>

P2 == <<<<"Calc", "calc">>, <<10, 20>>, <<640, 480>>>>

Shapes == {<<P1, FALSE, FALSE>>, <<P2, FALSE, FALSE>>,
           <<P1, TRUE, FALSE>>, <<P2, FALSE, TRUE>>}

WindowInputs ==
    {WindowInput(id, sh[1][1], sh[1][2], sh[1][3], sh[2], sh[3]) :
        id \in Ids, sh \in Shapes}

VARIABLES
    windows,        \* committed `windows` cell: sequence of WindowState
    topZIndex,      \* committed `topZIndex` cell
    pc,             \* "idle" | "pending" | "crashed"
    op,             \* the operation whose updaters ran last
    pendingWindows, \* value returned by the setWindows updater
    pendingTop,     \* value returned by the setTopZIndex updater
    emitted,        \* Sentry calls made by the updaters of `op`
    assigned        \* history: every <<id, zIndex>> ever written into a record

vars == <<windows, topZIndex, pc, op, pendingWindows, pendingTop,
          emitted, assigned>>

NoOp == [kind |-> "none", id |-> "", arg |-> <<>>]

\* ---------------------------------------------------------------- helpers
\* prev.find(w => w.id === id) !== undefined
Has(prev, id) == \E i \in 1..Len(prev) : prev[i].id = id

\* prev.find(w => w.id === id): the first match
Find(prev, id) ==
    prev[CHOOSE i \in 1..Len(prev) :
            /\ prev[i].id = id
            /\ \A j \in 1..(i - 1) : prev[j].id # id]

\* Faulty variant of NewRecord: the display flags are reset instead of being
\* spread from the argument.
NewRecordResetsFlags(window, newZ) ==
    [id |-> window.id, title |-> window.title, icon |-> window.icon,
     x |-> window.x, y |-> window.y,
     width |-> window.width, height |-> window.height,
     isMinimized |-> FALSE, isMaximized |-> FALSE,
     zIndex |-> newZ, isFocused |-> TRUE]

\* { ...window, zIndex: newZ, isFocused: true }
NewRecord(window, newZ) ==
    [id |-> window.id, title |-> window.title, icon |-> window.icon,
     x |-> window.x, y |-> window.y,
     width |-> window.width, height |-> window.height,
     isMinimized |-> window.isMinimized, isMaximized |-> window.isMaximized,
     zIndex |-> newZ, isFocused |-> TRUE]

\* ---------------------------------------------------- setWindows updaters
\* Faulty variant of OpenUpdater: a new record takes its zIndex from the
\* number of open windows instead of the drawn key.
OpenUpdaterCountsWindows(prev, window, newZ) ==
    IF Has(prev, window.id)
    THEN [i \in 1..Len(prev) |-> LET w == prev[i] IN
            IF w.id = window.id
            THEN [w EXCEPT !.isMinimized = FALSE, !.isFocused = TRUE,
                           !.zIndex = newZ]
            ELSE [w EXCEPT !.isFocused = FALSE]]
    ELSE Append([i \in 1..Len(prev) |->
                    [prev[i] EXCEPT !.isFocused = FALSE]],
                NewRecord(window, SeedZIndex + Len(prev) + 1))

\* Faulty variant of OpenUpdater: an existing record is rebuilt from the
\* argument, so it takes the title, icon, geometry and flags of the call.
OpenUpdaterOverwrites(prev, window, newZ) ==
    IF Has(prev, window.id)
    THEN [i \in 1..Len(prev) |-> LET w == prev[i] IN
            IF w.id = window.id
            THEN NewRecord(window, newZ)
            ELSE [w EXCEPT !.isFocused = FALSE]]
    ELSE Append([i \in 1..Len(prev) |->
                    [prev[i] EXCEPT !.isFocused = FALSE]],
                NewRecord(window, newZ))

\* Faulty variant of OpenUpdater: the record is appended without looking
\* for an existing one.
OpenUpdaterAlwaysAppends(prev, window, newZ) ==
    Append([i \in 1..Len(prev) |-> [prev[i] EXCEPT !.isFocused = FALSE]],
           NewRecord(window, newZ))

\* Faulty variant of OpenUpdater: an existing record is brought to front
\* without the isMinimized branch, so it stays minimized.
OpenUpdaterKeepsMinimized(prev, window, newZ) ==
    IF Has(prev, window.id)
    THEN [i \in 1..Len(prev) |-> LET w == prev[i] IN
            IF w.id = window.id
            THEN [w EXCEPT !.isFocused = TRUE, !.zIndex = newZ]
            ELSE [w EXCEPT !.isFocused = FALSE]]
    ELSE Append([i \in 1..Len(prev) |->
                    [prev[i] EXCEPT !.isFocused = FALSE]],
                NewRecord(window, newZ))

OpenUpdater(prev, window, newZ) ==
    IF Has(prev, window.id)
    THEN IF Find(prev, window.id).isMinimized
         THEN [i \in 1..Len(prev) |-> LET w == prev[i] IN
                IF w.id = window.id
                THEN [w EXCEPT !.isMinimized = FALSE, !.isFocused = TRUE,
                               !.zIndex = newZ]
                ELSE [w EXCEPT !.isFocused = FALSE]]
         ELSE [i \in 1..Len(prev) |-> LET w == prev[i] IN
                IF w.id = window.id
                THEN [w EXCEPT !.isFocused = TRUE, !.zIndex = newZ]
                ELSE [w EXCEPT !.isFocused = FALSE]]
    ELSE Append([i \in 1..Len(prev) |->
                    [prev[i] EXCEPT !.isFocused = FALSE]],
                NewRecord(window, newZ))

\* Faulty variant of CloseUpdater: the last remaining window takes the
\* focus when the closed one goes away.
CloseUpdaterRefocuses(prev, id) ==
    [i \in 1..Len(SelectSeq(prev, LAMBDA w : w.id # id)) |->
        IF i = Len(SelectSeq(prev, LAMBDA w : w.id # id))
        THEN [SelectSeq(prev, LAMBDA w : w.id # id)[i]
                EXCEPT !.isFocused = TRUE]
        ELSE SelectSeq(prev, LAMBDA w : w.id # id)[i]]

CloseUpdater(prev, id) == SelectSeq(prev, LAMBDA w : w.id # id)

\* Faulty variant of MinimizeUpdater: every record loses the focus, not
\* only the minimized one.
MinimizeUpdaterBlursAll(prev, id) ==
    [i \in 1..Len(prev) |-> LET w == prev[i] IN
        IF w.id = id
        THEN [w EXCEPT !.isMinimized = TRUE, !.isFocused = FALSE]
        ELSE [w EXCEPT !.isFocused = FALSE]]

MinimizeUpdater(prev, id) ==
    [i \in 1..Len(prev) |-> LET w == prev[i] IN
        IF w.id = id
        THEN [w EXCEPT !.isMinimized = TRUE, !.isFocused = FALSE]
        ELSE w]

\* Faulty variant of MaximizeUpdater: the flag is set instead of toggled.
MaximizeUpdaterOneWay(prev, id) ==
    [i \in 1..Len(prev) |-> LET w == prev[i] IN
        IF w.id = id THEN [w EXCEPT !.isMaximized = TRUE] ELSE w]

MaximizeUpdater(prev, id) ==
    [i \in 1..Len(prev) |-> LET w == prev[i] IN
        IF w.id = id THEN [w EXCEPT !.isMaximized = ~w.isMaximized] ELSE w]

\* Faulty variant of RestoreUpdater: the target is brought to front but
\* not given the focus.
RestoreUpdaterNoFocus(prev, id, newZ) ==
    [i \in 1..Len(prev) |-> LET w == prev[i] IN
        IF w.id = id
        THEN [w EXCEPT !.isMinimized = FALSE, !.zIndex = newZ]
        ELSE [w EXCEPT !.isFocused = FALSE]]

RestoreUpdater(prev, id, newZ) ==
    [i \in 1..Len(prev) |-> LET w == prev[i] IN
        IF w.id = id
        THEN [w EXCEPT !.isMinimized = FALSE, !.isFocused = TRUE,
                       !.zIndex = newZ]
        ELSE [w EXCEPT !.isFocused = FALSE]]

\* Faulty variant of FocusUpdater: the other records keep their focus flag.
FocusUpdaterKeepsOthers(prev, id, newZ) ==
    [i \in 1..Len(prev) |-> LET w == prev[i] IN
        IF w.id = id
        THEN [w EXCEPT !.isFocused = TRUE, !.zIndex = newZ]
        ELSE w]

\* Faulty variant of FocusUpdater: it also un-minimizes the target, as
\* restore does.
FocusUpdaterUnminimizes(prev, id, newZ) ==
    [i \in 1..Len(prev) |-> LET w == prev[i] IN
        IF w.id = id
        THEN [w EXCEPT !.isMinimized = FALSE, !.isFocused = TRUE,
                       !.zIndex = newZ]
        ELSE [w EXCEPT !.isFocused = FALSE]]

\* Variant of FocusUpdater that leaves the records alone when the id is not
\* in the registry (the counter is still advanced by the caller).
FocusUpdaterGuarded(prev, id, newZ) ==
    IF Has(prev, id)
    THEN [i \in 1..Len(prev) |-> LET w == prev[i] IN
            IF w.id = id
            THEN [w EXCEPT !.isFocused = TRUE, !.zIndex = newZ]
            ELSE [w EXCEPT !.isFocused = FALSE]]
    ELSE prev

FocusUpdater(prev, id, newZ) ==
    [i \in 1..Len(prev) |-> LET w == prev[i] IN
        IF w.id = id
        THEN [w EXCEPT !.isFocused = TRUE, !.zIndex = newZ]
        ELSE [w EXCEPT !.isFocused = FALSE]]

PositionUpdater(prev, id, x, y) ==
    [i \in 1..Len(prev) |-> LET w == prev[i] IN
        IF w.id = id THEN [w EXCEPT !.x = x, !.y = y] ELSE w]

SizeUpdater(prev, id, width, height) ==
    [i \in 1..Len(prev) |-> LET w == prev[i] IN
        IF w.id = id THEN [w EXCEPT !.width = width, !.height = height]
        ELSE w]

\* Faulty variant of NextZ: the counter is returned without being advanced.
NextZStale(currentZ) == currentZ

\* Faulty variant of NextZ: one operation draws two values.
NextZTwice(currentZ) == currentZ + 2

\* setTopZIndex updater of open / restore / focus
NextZ(currentZ) == currentZ + 1

\* ------------------------------------------------------------- telemetry
Event(call, name, id, title, flag, n) ==
    [call |-> call, name |-> name, id |-> id, title |-> title,
     flag |-> flag, n |-> n]

\* Sentry calls the open updater makes, in program order
\* Faulty variant of OpenTelemetry: window_focused reports the minimized
\* flag of the record after the operation (always false).
OpenTelemetryFlagAfter(prev, window) ==
    IF ~Has(prev, window.id)
    THEN << Event("logger.info", "window_opened", window.id, window.title,
                  FALSE, 0),
            Event("metrics.increment", "desktop.windows.opened", window.id,
                  "", FALSE, 1),
            Event("metrics.gauge", "desktop.windows.active", "", "", FALSE,
                  Len(prev) + 1) >>
    ELSE << Event("logger.info", "window_focused", window.id, "", FALSE, 0),
            Event("metrics.increment", "desktop.windows.focused", window.id,
                  "", FALSE, 1) >>

OpenTelemetry(prev, window) ==
    IF ~Has(prev, window.id)
    THEN << Event("logger.info", "window_opened", window.id, window.title,
                  FALSE, 0),
            Event("metrics.increment", "desktop.windows.opened", window.id,
                  "", FALSE, 1),
            Event("metrics.gauge", "desktop.windows.active", "", "", FALSE,
                  Len(prev) + 1) >>
    ELSE << Event("logger.info", "window_focused", window.id, "",
                  Find(prev, window.id).isMinimized, 0),
            Event("metrics.increment", "desktop.windows.focused", window.id,
                  "", FALSE, 1) >>

CloseTelemetry(prev, id) ==
    IF Has(prev, id)
    THEN << Event("logger.info", "window_closed", id, Find(prev, id).title,
                  FALSE, 0),
            Event("metrics.increment", "desktop.windows.closed", id, "",
                  FALSE, 1),
            Event("metrics.gauge", "desktop.windows.active", "", "", FALSE,
                  Len(prev) - 1) >>
    ELSE << >>

\* Faulty variant of MinimizeTelemetry: the counter is incremented outside
\* the `if (window)` block, so also for an id that is not in the registry.
MinimizeTelemetryUnguarded(prev, id) ==
    (IF Has(prev, id)
     THEN << Event("logger.info", "window_minimized", id,
                   Find(prev, id).title, FALSE, 0) >>
     ELSE << >>)
    \o << Event("metrics.increment", "desktop.windows.minimized", id, "",
                FALSE, 1) >>

MinimizeTelemetry(prev, id) ==
    IF Has(prev, id)
    THEN << Event("logger.info", "window_minimized", id,
                  Find(prev, id).title, FALSE, 0),
            Event("metrics.increment", "desktop.windows.minimized", id, "",
                  FALSE, 1) >>
    ELSE << >>

MaximizeTelemetry(prev, id) ==
    IF Has(prev, id)
    THEN << Event("logger.info", "window_maximized", id,
                  Find(prev, id).title, ~Find(prev, id).isMaximized, 0),
            Event("metrics.increment", "desktop.windows.maximized", id, "",
                  ~Find(prev, id).isMaximized, 1) >>
    ELSE << >>

\* ------------------------------------------------------------------ Init
Init ==
    /\ windows = << >>
    /\ topZIndex = SeedZIndex
    /\ pc = "idle"
    /\ op = NoOp
    /\ pendingWindows = << >>
    /\ pendingTop = SeedZIndex
    /\ emitted = << >>
    /\ assigned = {}

\* --------------------------------------------------------------- actions
\* The updaters of one operation run.  `calls` are the Sentry calls the
\* setWindows updater makes before it returns; failAt = 0 means every call
\* returns, failAt = k means the k-th call throws, which leaves the updater
\* (there is no try/catch around the calls) before it has returned a value.
RunUpdaters(o, calls, failAt, nextWindows, nextTop) ==
    /\ pc = "idle"
    /\ failAt \in 0..Len(calls)
    /\ op' = o
    /\ IF failAt = 0
       THEN /\ emitted' = calls
            /\ pendingWindows' = nextWindows
            /\ pendingTop' = nextTop
            /\ pc' = "pending"
       ELSE /\ emitted' = SubSeq(calls, 1, failAt - 1)
            /\ UNCHANGED <<pendingWindows, pendingTop>>
            /\ pc' = "crashed"
    /\ UNCHANGED <<windows, topZIndex, assigned>>

CanDraw == topZIndex < SeedZIndex + MaxDraws

OpenWindow(window, failAt) ==
    /\ CanDraw
    /\ RunUpdaters([kind |-> "open", id |-> window.id, arg |-> window],
                   OpenTelemetry(windows, window), failAt,
                   OpenUpdater(windows, window, NextZ(topZIndex)),
                   NextZ(topZIndex))

CloseWindow(id, failAt) ==
    RunUpdaters([kind |-> "close", id |-> id, arg |-> <<>>],
                CloseTelemetry(windows, id), failAt,
                CloseUpdater(windows, id), topZIndex)

MinimizeWindow(id, failAt) ==
    RunUpdaters([kind |-> "minimize", id |-> id, arg |-> <<>>],
                MinimizeTelemetry(windows, id), failAt,
                MinimizeUpdater(windows, id), topZIndex)

MaximizeWindow(id, failAt) ==
    RunUpdaters([kind |-> "maximize", id |-> id, arg |-> <<>>],
                MaximizeTelemetry(windows, id), failAt,
                MaximizeUpdater(windows, id), topZIndex)

\* Faulty variant of RestoreWindow: the restore is reported like the other
\* transitions.
RestoreWindowLogged(id) ==
    /\ CanDraw
    /\ RunUpdaters([kind |-> "restore", id |-> id, arg |-> <<>>],
                   << Event("logger.info", "window_restored", id, "",
                            FALSE, 0) >>, 0,
                   RestoreUpdater(windows, id, NextZ(topZIndex)),
                   NextZ(topZIndex))

RestoreWindow(id) ==
    /\ CanDraw
    /\ RunUpdaters([kind |-> "restore", id |-> id, arg |-> <<>>],
                   << >>, 0,
                   RestoreUpdater(windows, id, NextZ(topZIndex)),
                   NextZ(topZIndex))

FocusWindow(id) ==
    /\ CanDraw
    /\ RunUpdaters([kind |-> "focus", id |-> id, arg |-> <<>>],
                   << >>, 0,
                   FocusUpdater(windows, id, NextZ(topZIndex)),
                   NextZ(topZIndex))

UpdateWindowPosition(id, p) ==
    RunUpdaters([kind |-> "position", id |-> id, arg |-> p],
                << >>, 0,
                PositionUpdater(windows, id, p[1], p[2]), topZIndex)

UpdateWindowSize(id, s) ==
    RunUpdaters([kind |-> "size", id |-> id, arg |-> s],
                << >>, 0,
                SizeUpdater(windows, id, s[1], s[2]), topZIndex)

\* open, restore and focus are the operations that write a zIndex
Stacking == {"open", "restore", "focus"}

\* <<id, zIndex>> pairs the updaters of operation o wrote into `after`
Written(o, after) ==
    IF o.kind \in Stacking /\ Has(after, o.id)
    THEN {<<o.id, Find(after, o.id).zIndex>>}
    ELSE {}

\* Faulty variant of Commit: the two cells are committed one after the
\* other, the counter first.
CommitCellByCell ==
    /\ pc = "pending"
    /\ IF topZIndex # pendingTop
       THEN /\ topZIndex' = pendingTop
            /\ UNCHANGED <<windows, assigned, pc, op, emitted>>
       ELSE /\ windows' = pendingWindows
            /\ UNCHANGED topZIndex
            /\ assigned' = assigned \cup Written(op, pendingWindows)
            /\ pc' = "idle"
            /\ op' = NoOp
            /\ emitted' = << >>
    /\ UNCHANGED <<pendingWindows, pendingTop>>

\* React commits what the updaters returned; both cells change together.
Commit ==
    /\ pc = "pending"
    /\ windows' = pendingWindows
    /\ topZIndex' = pendingTop
    /\ assigned' = assigned \cup Written(op, pendingWindows)
    /\ pc' = "idle"
    /\ op' = NoOp
    /\ emitted' = << >>
    /\ UNCHANGED <<pendingWindows, pendingTop>>

Next ==
    \/ \E w \in WindowInputs, f \in 0..3 : OpenWindow(w, f)
    \/ \E id \in Ids, f \in 0..3 : CloseWindow(id, f)
    \/ \E id \in Ids, f \in 0..2 : MinimizeWindow(id, f)
    \/ \E id \in Ids, f \in 0..2 : MaximizeWindow(id, f)
    \/ \E id \in Ids : RestoreWindow(id)
    \/ \E id \in Ids : FocusWindow(id)
    \/ \E id \in Ids, p \in Points : UpdateWindowPosition(id, p)
    \/ \E id \in Ids, s \in Sizes : UpdateWindowSize(id, s)
    \/ Commit

Spec == Init /\ [][Next]_vars

\* ================================================================ claims
FocusedCount(ws) == Cardinality({i \in 1..Len(ws) : ws[i].isFocused})

Pending(kind) == pc = "pending" /\ op.kind = kind

\* The record of `ws` that carries id (ids are unique in the registry).
Rec(ws, id) == ws[CHOOSE i \in 1..Len(ws) : ws[i].id = id]

\* C1: after any sequence of operations, with ids present or absent, at
\* most one record of the registry has isFocused = true.
C1_AtMostOneFocused ==
    /\ FocusedCount(windows) <= 1
    /\ pc = "pending" => FocusedCount(pendingWindows) <= 1

\* Two windows are open and the older one has been brought back to front.
C1_Witness ==
    /\ pc = "idle"
    /\ Len(windows) = 2
    /\ windows[1].isFocused
    /\ ~windows[2].isFocused
    /\ windows[1].zIndex > windows[2].zIndex

\* C2: the zIndex values present in the registry are pairwise distinct, the
\* top ordering key is >= every zIndex ever assigned (closed windows
\* included), and the top ordering key never decreases.
C2_State ==
    /\ \A i, j \in 1..Len(windows) :
            i # j => windows[i].zIndex # windows[j].zIndex
    /\ \A a \in assigned : topZIndex >= a[2]

C2_DistinctAndMonotonic ==
    /\ []C2_State
    /\ [][topZIndex' >= topZIndex]_vars

\* A window that held a key has been closed, another is open, and the top
\* key is still above the key of the closed one.
C2_Witness ==
    /\ pc = "idle"
    /\ Len(windows) = 1
    /\ \E a \in assigned : ~Has(windows, a[1]) /\ a[2] < topZIndex
    /\ \E a \in assigned : Has(windows, a[1]) /\ a[2] = topZIndex

\* C3: no zIndex value is assigned twice over the life of the registry and
\* a record's zIndex never decreases while it stays in the registry; a
\* window closed and opened again gets a zIndex different from every zIndex
\* assigned before, the one it held included.
C3_NeverReused ==
    pc = "pending" =>
        /\ \A wr \in Written(op, pendingWindows) :
                \A a \in assigned : a[2] # wr[2]
        /\ \A i \in 1..Len(windows), j \in 1..Len(pendingWindows) :
                windows[i].id = pendingWindows[j].id
                    => pendingWindows[j].zIndex >= windows[i].zIndex

\* An id that held a zIndex and was closed is being opened again.
C3_Witness ==
    /\ Pending("open")
    /\ ~Has(windows, op.id)
    /\ Has(pendingWindows, op.id)
    /\ \E a \in assigned : a[1] = op.id
    /\ Len(windows) >= 1

\* The stacking operations that have a target record to write to.
StackingOnTarget ==
    /\ pc = "pending"
    /\ \/ op.kind = "open"
       \/ op.kind \in {"restore", "focus"} /\ Has(windows, op.id)

\* C4: the top ordering key starts at 100; open (new or existing id) and
\* restore / focus of a present id advance it by exactly 1 and write exactly
\* the new value as the target's zIndex; the first window opened on an empty
\* registry gets zIndex 101 and the top key is then 101.
C4_Step ==
    /\ StackingOnTarget =>
            /\ pendingTop = topZIndex + 1
            /\ Rec(pendingWindows, op.id).zIndex = pendingTop
            /\ \A i \in 1..Len(pendingWindows) :
                    pendingWindows[i].id # op.id
                        => pendingWindows[i].zIndex < pendingTop
    /\ (Pending("open") /\ windows = << >> /\ assigned = {}
            /\ topZIndex = 100)
            => pendingWindows[1].zIndex = 101 /\ pendingTop = 101

C4_OneDrawPerStackingOp ==
    /\ topZIndex = 100
    /\ windows = << >>
    /\ []C4_Step

\* A restore of a present, minimized window has drawn the third key.
C4_Witness ==
    /\ Pending("restore")
    /\ Has(windows, op.id)
    /\ Rec(windows, op.id).isMinimized
    /\ topZIndex = 102
    /\ pendingTop = 103

\* C5: restore(id) and focus(id) with an id that is not in the registry are
\* no-ops: record set (focus flags included) and top ordering key are the
\* same after the call as before it.
C5_AbsentIdIsNoOp ==
    (pc = "pending" /\ op.kind \in {"restore", "focus"}
        /\ ~Has(windows, op.id))
        => pendingWindows = windows /\ pendingTop = topZIndex

\* The record open builds for an id that is not in the registry
\* (all argument fields, the drawn key, focused).
BuiltFrom(w, z, mn, mx) ==
    [id |-> w.id, title |-> w.title, icon |-> w.icon, x |-> w.x, y |-> w.y,
     width |-> w.width, height |-> w.height,
     isMinimized |-> mn, isMaximized |-> mx, isFocused |-> TRUE,
     zIndex |-> z]

OpenOfAbsentId == Pending("open") /\ ~Has(windows, op.id)

\* Everything the claim says about open of an absent id except the values
\* of the two display flags of the new record.
OpenAddsOneRecord ==
    /\ Len(pendingWindows) = Len(windows) + 1
    /\ \A i \in 1..Len(windows) :
            pendingWindows[i] = [windows[i] EXCEPT !.isFocused = FALSE]

\* C6 (as stated): open(spec) with an id not in the registry adds exactly
\* one record built from spec with isMinimized = false, isMaximized = false,
\* isFocused = true and zIndex = the drawn key, whatever flags spec carries,
\* and clears isFocused on every other record.
C6_NewRecordFlagsFalse ==
    OpenOfAbsentId =>
        /\ OpenAddsOneRecord
        /\ pendingWindows[Len(pendingWindows)]
                = BuiltFrom(op.arg, pendingTop, FALSE, FALSE)

\* C6 (amended): ... adds exactly one record built from spec with
\* isFocused = true, zIndex = the drawn key and isMinimized / isMaximized
\* equal to the values spec carries; clears isFocused on every other record.
C6_NewRecordFlagsFromSpec ==
    OpenOfAbsentId =>
        /\ OpenAddsOneRecord
        /\ pendingWindows[Len(pendingWindows)]
                = BuiltFrom(op.arg, pendingTop, op.arg.isMinimized,
                            op.arg.isMaximized)

\* A window is opened minimized next to a focused one.
C6_Witness ==
    /\ OpenOfAbsentId
    /\ Len(windows) = 1
    /\ windows[1].isFocused
    /\ op.arg.isMinimized
    /\ pendingWindows[2].isMinimized
    /\ pendingWindows[2].isFocused
    /\ ~pendingWindows[1].isFocused

\* C7: open(spec) with an id already in the registry creates no second
\* record: the existing record gets isFocused = true and the drawn key,
\* isMinimized is cleared, every other record loses isFocused, and the
\* record keeps its x, y, width, height, title, icon and isMaximized,
\* whatever spec carries.
C7_OpenExistingBringsToFront ==
    (Pending("open") /\ Has(windows, op.id)) =>
        /\ Len(pendingWindows) = Len(windows)
        /\ \A i \in 1..Len(windows) :
                pendingWindows[i] =
                    IF windows[i].id = op.id
                    THEN [windows[i] EXCEPT !.isFocused = TRUE,
                                            !.zIndex = pendingTop,
                                            !.isMinimized = FALSE]
                    ELSE [windows[i] EXCEPT !.isFocused = FALSE]

\* A minimized, unfocused window is opened again with another title,
\* geometry and maximized flag while a second window has the focus.
C7_Witness ==
    /\ Pending("open")
    /\ Len(windows) = 2
    /\ Has(windows, op.id)
    /\ Rec(windows, op.id).isMinimized
    /\ ~Rec(windows, op.id).isFocused
    /\ FocusedCount(windows) = 1
    /\ op.arg.title # Rec(windows, op.id).title
    /\ op.arg.x # Rec(windows, op.id).x
    /\ op.arg.width # Rec(windows, op.id).width
    /\ op.arg.isMaximized # Rec(windows, op.id).isMaximized
    /\ ~Rec(pendingWindows, op.id).isMinimized

\* C8 (as stated): whenever the registry is non-empty, exactly one record
\* has isFocused = true.
C8_ExactlyOneFocused ==
    Len(windows) > 0 => FocusedCount(windows) = 1

\* C8 (amended): open, and restore / focus of a present id, leave exactly
\* one record focused (the target); the focus is lost, with windows
\* remaining or not, only by minimize or close of the focused window or by
\* restore / focus of an id that is not in the registry.
C8_FocusGainedAndLost ==
    /\ StackingOnTarget =>
            /\ FocusedCount(pendingWindows) = 1
            /\ Rec(pendingWindows, op.id).isFocused
    /\ (pc = "pending" /\ FocusedCount(windows) = 1
            /\ FocusedCount(pendingWindows) = 0) =>
            \/ /\ op.kind \in {"minimize", "close"}
               /\ Has(windows, op.id)
               /\ Rec(windows, op.id).isFocused
            \/ /\ op.kind \in {"restore", "focus"}
               /\ ~Has(windows, op.id)

\* The focused one of two windows is minimized: two windows, none focused.
C8_Witness ==
    /\ Pending("minimize")
    /\ Len(windows) = 2
    /\ FocusedCount(windows) = 1
    /\ Rec(windows, op.id).isFocused
    /\ Len(pendingWindows) = 2
    /\ FocusedCount(pendingWindows) = 0

\* What the updaters of `op` return from the committed state.
ResultWindows ==
    CASE op.kind = "open" -> OpenUpdater(windows, op.arg, NextZ(topZIndex))
      [] op.kind = "close" -> CloseUpdater(windows, op.id)
      [] op.kind = "minimize" -> MinimizeUpdater(windows, op.id)
      [] op.kind = "maximize" -> MaximizeUpdater(windows, op.id)
      [] OTHER -> windows

ResultTop == IF op.kind = "open" THEN NextZ(topZIndex) ELSE topZIndex

\* C9: a telemetry call that throws during open, close, minimize or
\* maximize neither prevents nor rolls back the mutation and does not
\* surface: record set and top key are those of the run in which the
\* telemetry call succeeds.
C9_TelemetryFailureHarmless ==
    pc = "crashed" =>
        /\ pendingWindows = ResultWindows
        /\ pendingTop = ResultTop

\* C10: close(id) on a present id removes exactly that record and changes
\* nothing else: the top key is unchanged and every remaining record keeps
\* all its fields, isFocused and zIndex included.
C10_CloseRemovesOnlyTarget ==
    (Pending("close") /\ Has(windows, op.id)) =>
        /\ pendingTop = topZIndex
        /\ Len(pendingWindows) = Len(windows) - 1
        /\ ~Has(pendingWindows, op.id)
        /\ \A i \in 1..Len(windows) :
                windows[i].id # op.id =>
                    \E j \in 1..Len(pendingWindows) :
                        pendingWindows[j] = windows[i]

\* The focused window is closed while an unfocused one remains.
C10_Witness ==
    /\ Pending("close")
    /\ Len(windows) = 2
    /\ Rec(windows, op.id).isFocused
    /\ Len(pendingWindows) = 1
    /\ ~pendingWindows[1].isFocused
    /\ topZIndex > pendingWindows[1].zIndex


\* C11: minimize(id) on a present id sets isMinimized = true and
\* isFocused = false on that record and changes nothing else: its zIndex,
\* geometry and isMaximized, every other record and the top ordering key
\* are unchanged.
C11_MinimizeTouchesOnlyTarget ==
    (Pending("minimize") /\ Has(windows, op.id)) =>
        /\ pendingTop = topZIndex
        /\ Len(pendingWindows) = Len(windows)
        /\ \A i \in 1..Len(windows) :
                pendingWindows[i] =
                    IF windows[i].id = op.id
                    THEN [windows[i] EXCEPT !.isMinimized = TRUE,
                                            !.isFocused = FALSE]
                    ELSE windows[i]

\* An unfocused, maximized window is minimized while another window has
\* the focus, which that window keeps.
C11_Witness ==
    /\ Pending("minimize")
    /\ Len(windows) = 2
    /\ Has(windows, op.id)
    /\ ~Rec(windows, op.id).isFocused
    /\ ~Rec(windows, op.id).isMinimized
    /\ Rec(windows, op.id).isMaximized
    /\ FocusedCount(windows) = 1
    /\ FocusedCount(pendingWindows) = 1
    /\ Rec(pendingWindows, op.id).isMinimized

\* C12: maximize(id) on a present id flips only that record's isMaximized
\* (focus, minimized state, geometry, zIndex, the other records and the top
\* key are unchanged), and a second maximize(id) right after the first
\* returns the registry and the top key to what they were.
C12_MaximizeIsAnInvolution ==
    (Pending("maximize") /\ Has(windows, op.id)) =>
        /\ pendingTop = topZIndex
        /\ Len(pendingWindows) = Len(windows)
        /\ \A i \in 1..Len(windows) :
                pendingWindows[i] =
                    IF windows[i].id = op.id
                    THEN [windows[i] EXCEPT
                            !.isMaximized = ~windows[i].isMaximized]
                    ELSE windows[i]
        /\ Rec(pendingWindows, op.id).isMaximized
                # Rec(windows, op.id).isMaximized
        /\ MaximizeUpdater(pendingWindows, op.id) = windows

\* A maximized, focused window is being un-maximized next to another one.
C12_Witness ==
    /\ Pending("maximize")
    /\ Len(windows) = 2
    /\ Has(windows, op.id)
    /\ Rec(windows, op.id).isMaximized
    /\ Rec(windows, op.id).isFocused
    /\ ~Rec(pendingWindows, op.id).isMaximized

\* C13: close, minimize, maximize, reposition and resize with an id that is
\* not in the registry leave the record set and the top ordering key
\* unchanged and emit no telemetry.
C13_AbsentIdLeavesAllUnchanged ==
    (pc \in {"pending", "crashed"}
        /\ op.kind \in {"close", "minimize", "maximize", "position", "size"}
        /\ ~Has(windows, op.id)) =>
        /\ pc = "pending"
        /\ pendingWindows = windows
        /\ pendingTop = topZIndex
        /\ emitted = << >>

\* minimize of an id that is not open while another window is open.
C13_Witness ==
    /\ Pending("minimize")
    /\ Len(windows) = 1
    /\ ~Has(windows, op.id)
    /\ windows[1].isFocused
    /\ pendingWindows = windows


\* C14: the telemetry of a transition is emitted only after the mutation of
\* that transition has been committed: at no reachable point has an event
\* been emitted while the registry still holds the state from before the
\* operation.
C14_TelemetryAfterCommit ==
    emitted # << >> =>
        /\ windows = pendingWindows
        /\ topZIndex = pendingTop

\* C15: open, restore and focus are atomic for the pair (record set, top
\* ordering key): no record visible to a reader has a zIndex above the
\* visible top key, and whenever either of the two changes, both take the
\* values the operation computed in the same step (the top key is never
\* seen advanced while the target still has its old zIndex and focus).
C15_BothOrNeither ==
    (windows' # windows \/ topZIndex' # topZIndex) =>
        /\ pc = "pending"
        /\ windows' = pendingWindows
        /\ topZIndex' = pendingTop

C16_RestoreFocusSilent ==
    /\ (pc \in {"pending", "crashed"} /\ op.kind \in {"restore", "focus"})
            => emitted = << >>
    /\ emitted # << >> =>
            \/ op.kind = "open"
            \/ /\ op.kind \in {"close", "minimize", "maximize"}
               /\ Has(windows, op.id)

\* A minimized window is restored and nothing has been emitted.
C16_Witness ==
    /\ Pending("restore")
    /\ Has(windows, op.id)
    /\ Rec(windows, op.id).isMinimized
    /\ ~Rec(pendingWindows, op.id).isMinimized
    /\ emitted = << >>


IdsOf(ws) == {ws[i].id : i \in 1..Len(ws)}

\* C17: no two records of the registry have the same id; the number of
\* records grows only by open of an absent id (by exactly 1) and shrinks
\* only by close of a present id (by exactly 1); no operation changes the
\* id of an existing record.
C17_IdsUniqueAndStable ==
    /\ \A i, j \in 1..Len(windows) :
            windows[i].id = windows[j].id => i = j
    /\ pc = "pending" =>
        /\ Len(pendingWindows) - Len(windows) =
                IF op.kind = "open" /\ ~Has(windows, op.id) THEN 1
                ELSE IF op.kind = "close" /\ Has(windows, op.id) THEN -1
                ELSE 0
        /\ op.kind # "close" =>
                \A i \in 1..Len(windows) :
                    pendingWindows[i].id = windows[i].id
        /\ op.kind = "close" =>
                /\ IdsOf(pendingWindows) = IdsOf(windows) \ {op.id}
                /\ \A i, j \in 1..Len(pendingWindows) :
                        pendingWindows[i].id = pendingWindows[j].id => i = j

\* An id that is already open, next to another window, is opened again.
C17_Witness ==
    /\ Pending("open")
    /\ Len(windows) = 2
    /\ Has(windows, op.id)
    /\ Len(pendingWindows) = 2
    /\ IdsOf(pendingWindows) = Ids

\* The ids of the focused records.
FocusedIds(ws) == {ws[i].id : i \in {j \in 1..Len(ws) : ws[j].isFocused}}

\* C18: focus(id) on a present id makes that record the only focused one
\* and changes nothing but isFocused flags, the target's zIndex and the top
\* key (a minimized window stays minimized); a second focus(id) right after
\* gives the same focused set, while the target's zIndex and the top key
\* advance by 1 on each call.
C18_FocusOnlyRefocuses ==
    (Pending("focus") /\ Has(windows, op.id)) =>
        /\ pendingTop = topZIndex + 1
        /\ Len(pendingWindows) = Len(windows)
        /\ \A i \in 1..Len(windows) :
                pendingWindows[i] =
                    IF windows[i].id = op.id
                    THEN [windows[i] EXCEPT !.isFocused = TRUE,
                                            !.zIndex = topZIndex + 1]
                    ELSE [windows[i] EXCEPT !.isFocused = FALSE]
        /\ FocusedIds(pendingWindows) = {op.id}
        /\ LET again == FocusUpdater(pendingWindows, op.id,
                                     NextZ(pendingTop))
           IN  /\ FocusedIds(again) = FocusedIds(pendingWindows)
               /\ Rec(again, op.id).zIndex = topZIndex + 2
               /\ NextZ(pendingTop) = topZIndex + 2
               /\ \A i \in 1..Len(again) :
                    again[i] = [pendingWindows[i] EXCEPT
                                    !.zIndex = IF again[i].id = op.id
                                               THEN topZIndex + 2
                                               ELSE @]

\* A minimized, unfocused window gets the focus from another window and
\* stays minimized.
C18_Witness ==
    /\ Pending("focus")
    /\ Len(windows) = 2
    /\ Has(windows, op.id)
    /\ Rec(windows, op.id).isMinimized
    /\ ~Rec(windows, op.id).isFocused
    /\ FocusedCount(windows) = 1
    /\ Rec(pendingWindows, op.id).isMinimized
    /\ Rec(pendingWindows, op.id).isFocused

\* Names of the logger.info events emitted by `op`
Logged == {emitted[i].name : i \in {j \in 1..Len(emitted) :
                                        emitted[j].call = "logger.info"}}

\* C19: open emits window_opened exactly when the id was absent right
\* before the call and window_focused exactly when it was present; the
\* minimized flag carried by window_focused is the value isMinimized had
\* before the operation cleared it.
C19_OpenEventMatchesBranch ==
    Pending("open") =>
        /\ ("window_opened" \in Logged) <=> ~Has(windows, op.id)
        /\ ("window_focused" \in Logged) <=> Has(windows, op.id)
        /\ emitted[1].call = "logger.info"
        /\ emitted[1].id = op.id
        /\ Has(windows, op.id) =>
                emitted[1].flag = Rec(windows, op.id).isMinimized

\* A minimized window is opened again: the event says it was minimized,
\* the record no longer is.
C19_Witness ==
    /\ Pending("open")
    /\ Has(windows, op.id)
    /\ Rec(windows, op.id).isMinimized
    /\ emitted[1].name = "window_focused"
    /\ emitted[1].flag
    /\ ~Rec(pendingWindows, op.id).isMinimized

\* C20: any record with isFocused = true has zIndex equal to the current
\* top ordering key and so the strictly greatest zIndex of the registry.
C20_FocusedIsTopmost ==
    \A i \in 1..Len(windows) :
        windows[i].isFocused =>
            /\ windows[i].zIndex = topZIndex
            /\ \A j \in 1..Len(windows) :
                    j # i => windows[j].zIndex < windows[i].zIndex

\* The first of two windows has the focus after the second was opened,
\* resized, moved and maximized.
C20_Witness ==
    /\ pc = "idle"
    /\ Len(windows) = 2
    /\ windows[1].isFocused
    /\ windows[1].zIndex = topZIndex
    /\ windows[2].zIndex = topZIndex - 1
    /\ windows[2].isMaximized


\* C21: for an id that is in the registry, open(spec) with spec.id = id and
\* restore(id) give the same record set and the same top ordering key,
\* whether the record was minimized or not and whatever else spec carries.
C21_OpenExistingEqualsRestore ==
    /\ (Pending("open") /\ Has(windows, op.id)) =>
            /\ pendingWindows
                    = RestoreUpdater(windows, op.id, NextZ(topZIndex))
            /\ pendingTop = NextZ(topZIndex)
    /\ (Pending("restore") /\ Has(windows, op.id)) =>
            /\ \A w \in WindowInputs :
                    w.id = op.id =>
                        OpenUpdater(windows, w, NextZ(topZIndex))
                            = pendingWindows
            /\ pendingTop = NextZ(topZIndex)

\* A minimized, maximized, unfocused window is opened again with other
\* flags and geometry while a second window has the focus.
C21_Witness ==
    /\ Pending("open")
    /\ Len(windows) = 2
    /\ Has(windows, op.id)
    /\ Rec(windows, op.id).isMinimized
    /\ Rec(windows, op.id).isMaximized
    /\ ~Rec(windows, op.id).isFocused
    /\ ~op.arg.isMinimized
    /\ ~op.arg.isMaximized
    /\ op.arg.height # Rec(windows, op.id).height
    /\ Rec(pendingWindows, op.id).isFocused

====
